---------------------------- MODULE Spec2Model ----------------------------
(***************************************************************************)
(* Filament pick-and-place bundling simulation.                            *)
(*                                                                         *)
(* Three programs are modelled:                                            *)
(*   SH_  src/singleHand/app.js lines 1-753     single arm, 8 s cycle      *)
(*   TH_  src/twoHand/app.js                    two arms, 12 s cycle       *)
(*   PR_  src/singleHand/app.js lines 755-1445  press variant, 14 s cycle  *)
(*                                                                         *)
(* Time is exact and measured in ticks of 1/40 s (0.025 s): every phase    *)
(* boundary of the three tables and the instants 0.05 s, 0.1 s and 7.25 s  *)
(* are whole numbers of ticks.  A progress or an eased progress is the     *)
(* exact fraction <<numerator, denominator>>.                              *)
(*                                                                         *)
(* A bundle is an object identity (a positive integer).  The scene graph   *)
(* is the pair of functions parent / kind over the bundles that are in     *)
(* the graph; an object removed from the graph leaves their domain.  A new *)
(* object is named by the smallest integer that names no object of the     *)
(* graph at the time the handler that creates it starts.  slot gives, for  *)
(* a bundle placed in a tray, the <<row, col>> its position was computed   *)
(* from.  serial is instrumentation: the ordinal of the placement that     *)
(* put the bundle in a tray.                                               *)
(***************************************************************************)
EXTENDS Integers, Sequences, FiniteSets, TLC

VARIABLES prog, single, dual, press, timeline, hitches, twin, clock, pivot, sides

vars == <<prog, single, dual, press, timeline, hitches, twin, clock, pivot,
          sides>>

Null == 0

\* ----- bounds of the model ------------------------------------------------
\* cycleTime is explored up to MaxCycles full cycles
MaxCycles == 2
\* the reset button is clicked at most MaxResets times in a run
MaxResets == 1
\* the instrumentation counters (hotFrames, attachCalls, wrapCalls) saturate here
MaxCalls == 2
\* the long runs without UI events are explored up to MaxRunCycles full cycles
MaxRunCycles == 11
\* a long run has at most MaxHitches long frames
MaxHitches == 2
\* two runs are compared up to MaxTwinCycles full cycles
MaxTwinCycles == 2
\* the run sampled every 0.1 s goes on for MaxScenarioCycles full cycles
MaxScenarioCycles == 1
\* the runs of fine frames go on for MaxFineCycles full cycles
MaxFineCycles == 2

\* frame deltas returned by clock.getDelta(), in ticks:
\* 0, 200 ms, 1 s (a hitch) and 8 s (the tab was in the background)
Deltas == {0, 8, 40, 320}
\* frame deltas of the long runs: 25 ms frames, with hitches of 0.525 s and
\* 1.525 s (longer than the reset phase of the 8 s and of the 12 s cycle)
RunDelta == {1}
Hitches == {21, 61}
\* frame deltas of the compared runs: 25 ms, 50 ms and 100 ms frames
TwinDeltas == {1, 2, 4}
\* frame delta of the run sampled every 0.1 s
ScenarioDeltas == {4}
\* frame deltas of the runs of fine frames: 25 ms, 50 ms and 75 ms
FineDeltas == {1, 2, 3}
\* time between two callbacks in the runs with pauses: 0, 200 ms and 1 s
PauseGaps == {0, 8, 40}
\* values of the speed slider
Speeds == {1, 2}
\* values of the station selector
Stations == {"left", "right", "both"}

Min(a, b) == IF a < b THEN a ELSE b

\* ----- exact fractions ----------------------------------------------------
\* r > a/b for a fraction r = <<n, d>> with d > 0, b > 0
GT(r, a, b) == r[1] * b > a * r[2]
\* r < a/b
LT(r, a, b) == r[1] * b < a * r[2]

\* t < 0.5 ? 4*t*t*t : 1 - pow(-2*t + 2, 3) / 2, for t = p[1]/p[2]
easeInOutCubic(p) ==
    LET n == p[1]
        d == p[2]
    IN  IF 2 * n < d
        THEN <<4 * n * n * n, d * d * d>>
        ELSE <<2 * d * d * d - (2 * d - 2 * n) * (2 * d - 2 * n) * (2 * d - 2 * n),
               2 * d * d * d>>

\* ----- scene graph (THREE.Object3D) ---------------------------------------
\* m is a program record with the fields parent, kind, slot and serial

\* the name of the next object created while the graph is m.parent
FreshId(m) ==
    CHOOSE i \in 1..(Cardinality(DOMAIN m.parent) + 1) :
        /\ i \notin DOMAIN m.parent
        /\ \A j \in 1..(i - 1) : j \in DOMAIN m.parent

\* obj = createRawBundle() / createWrappedBundle() followed by scene.add(obj):
\* a new object, child of the scene
SceneAddNew(m, obj, knd) ==
    [m EXCEPT !.parent = (obj :> "scene") @@ m.parent,
              !.kind   = (obj :> knd) @@ m.kind]

\* who.attach(obj): obj is re-parented to who, whatever its parent was
Attach(m, who, obj) == [m EXCEPT !.parent[obj] = who]

\* scene.remove(obj): obj leaves the graph only if it is a child of the scene
\* (Object3D.remove looks obj up in this.children and does nothing otherwise)
SceneRemove(m, obj) ==
    IF obj \in DOMAIN m.parent /\ m.parent[obj] = "scene"
    THEN [m EXCEPT !.parent = [o \in DOMAIN m.parent \ {obj} |-> m.parent[o]],
                   !.kind   = [o \in DOMAIN m.kind \ {obj} |-> m.kind[o]],
                   !.slot   = [o \in DOMAIN m.slot \ {obj} |-> m.slot[o]],
                   !.serial = [o \in DOMAIN m.serial \ {obj} |-> m.serial[o]]]
    ELSE m

\* a tray laid out in rows of 3
PlaceAt_ThreeColumns(m, obj, slotIndex) ==
    LET row == slotIndex \div 3
        col == slotIndex % 3
    IN  [Attach(m, "scene", obj) EXCEPT !.slot = (obj :> <<row, col>>) @@ m.slot]

\* scene.attach(obj); row = Math.floor(slotIndex / 4); col = slotIndex % 4;
\* obj.position.set(x + (col * 0.7 - 1.05), y, z + (row * 0.7 - 0.35)):
\* obj becomes a child of the scene at <<row, col>>
PlaceAt(m, obj, slotIndex) ==
    LET row == slotIndex \div 4
        col == slotIndex % 4
    IN  [Attach(m, "scene", obj) EXCEPT !.slot = (obj :> <<row, col>>) @@ m.slot]

RECURSIVE SceneRemoveAll(_, _)
\* list.forEach(b => scene.remove(b))
SceneRemoveAll(m, list) ==
    IF list = <<>> THEN m
    ELSE SceneRemoveAll(SceneRemove(m, Head(list)), Tail(list))

\* =========================== SINGLE ARM ===================================
\* src/singleHand/app.js, lines 1-753

SH_CYCLE_DURATION == 320

\* a table whose pick phase ends one tick early: a gap before 1.5 s
SH_PHASES_Gap == <<
    [name |-> "spawn",                start |-> 0,   end |-> 20],
    [name |-> "pick",                 start |-> 20,  end |-> 59],
    [name |-> "transport_to_wrapper", start |-> 60,  end |-> 120],
    [name |-> "insert_wrapper",       start |-> 120, end |-> 140],
    [name |-> "wrapping",             start |-> 140, end |-> 220],
    [name |-> "exit_wrapper",         start |-> 220, end |-> 240],
    [name |-> "transport_to_tray",    start |-> 240, end |-> 280],
    [name |-> "place_in_tray",        start |-> 280, end |-> 300],
    [name |-> "reset",                start |-> 300, end |-> 320] >>

SH_PHASES == <<
    [name |-> "spawn",                start |-> 0,   end |-> 20],
    [name |-> "pick",                 start |-> 20,  end |-> 60],
    [name |-> "transport_to_wrapper", start |-> 60,  end |-> 120],
    [name |-> "insert_wrapper",       start |-> 120, end |-> 140],
    [name |-> "wrapping",             start |-> 140, end |-> 220],
    [name |-> "exit_wrapper",         start |-> 220, end |-> 240],
    [name |-> "transport_to_tray",    start |-> 240, end |-> 280],
    [name |-> "place_in_tray",        start |-> 280, end |-> 300],
    [name |-> "reset",                start |-> 300, end |-> 320] >>

\* for (let phase of PHASES) if (loopTime >= phase.start && loopTime < phase.end)
\*   { currentPhase = phase; break; }
\* the index of the first matching phase, 0 when currentPhase stays null
FindPhase(phases, loopTime) ==
    LET hits == {i \in 1..Len(phases) :
                   loopTime >= phases[i].start /\ loopTime < phases[i].end}
    IN  IF hits = {} THEN 0
        ELSE CHOOSE i \in hits : \A j \in hits : i <= j

\* (loopTime - currentPhase.start) / (currentPhase.end - currentPhase.start)
Progress(phase, loopTime) == <<loopTime - phase.start, phase.end - phase.start>>

SH_Init ==
    [cycleTime |-> 0, cycleCount |-> 0, isPaused |-> FALSE, speed |-> 1,
     selectedStation |-> "left",
     currentBundle |-> Null, currentBundleIsWrapped |-> FALSE,
     leftBundles |-> <<>>, rightBundles |-> <<>>,
     parent |-> <<>>, kind |-> <<>>, slot |-> <<>>, serial |-> <<>>,
     \* what the last unpaused frame wrote to cycleTimer (loopTime), cycleText
     \* (the phase, "" before the first frame) and currentStation
     loopTime |-> 0, cycleText |-> "", currentStation |-> "",
     \* instrumentation: the frames of the current phase traversal sampled
     \* with the phase's threshold crossed, the pivot.attach calls of the
     \* current phase traversal, the raw-to-wrapped conversions since the
     \* in-flight bundle was spawned, the reset clicks, the placements and
     \* the evictions (shift) since the last reset click
     hotFrames |-> 0, attachCalls |-> 0, wrapCalls |-> 0, resets |-> 0,
     placed |-> 0, evicted |-> 0]

\* the alternation started on the wrong side
SH_getTargetStation_Flipped(selectedStation, cycleNum) ==
    IF selectedStation = "left" THEN "left"
    ELSE IF selectedStation = "right" THEN "right"
    ELSE IF cycleNum % 2 = 0 THEN "right" ELSE "left"

SH_getTargetStation(selectedStation, cycleNum) ==
    IF selectedStation = "left" THEN "left"
    ELSE IF selectedStation = "right" THEN "right"
    ELSE IF cycleNum % 2 = 0 THEN "left" ELSE "right"

\* if (!machine.currentBundle && progress < 0.1)
SH_spawnGuard(m, progress) == m.currentBundle = Null /\ LT(progress, 1, 10)

\* an attach that waits for t > 0.9
SH_attachGuard_Late(m, t) == m.currentBundle # Null /\ GT(t, 9, 10)

\* if (machine.currentBundle && t > 0.5)      (pick, exit_wrapper)
SH_attachGuard(m, t) == m.currentBundle # Null /\ GT(t, 1, 2)

\* if (machine.currentBundle && t > 0.5 && machine.currentBundle.parent !== scene)
SH_insertGuard(m, t) ==
    m.currentBundle # Null /\ GT(t, 1, 2) /\ m.parent[m.currentBundle] # "scene"

\* a conversion that waits for t > 0.95
SH_wrapGuard_Later(m, t) ==
    GT(t, 19, 20) /\ ~m.currentBundleIsWrapped /\ m.currentBundle # Null

\* the conversion without its currentBundleIsWrapped latch
SH_wrapGuard_NoLatch(m, t) == GT(t, 9, 10) /\ m.currentBundle # Null

\* if (t > 0.9 && !machine.currentBundleIsWrapped && machine.currentBundle)
SH_wrapGuard(m, t) ==
    GT(t, 9, 10) /\ ~m.currentBundleIsWrapped /\ m.currentBundle # Null

\* a placement that waits for t > 0.9
SH_placeGuard_Late(m, t) == m.currentBundle # Null /\ GT(t, 9, 10)

\* if (machine.currentBundle && t > 0.5)      (place_in_tray)
SH_placeGuard(m, t) == m.currentBundle # Null /\ GT(t, 1, 2)

\* a cleanup that starts at the first occupant
SH_cleanupGuard_Early(list) == Len(list) > 0

\* a cleanup that waits for one more bundle
SH_cleanupGuard_Late(list) == Len(list) > 9

\* if (machine.leftBundles.length > 8) / if (machine.rightBundles.length > 8)
SH_cleanupGuard(list) == Len(list) > 8

\* the threshold on t that the phase's ownership transfer waits for is crossed
SH_hot(phaseName, t) ==
    CASE phaseName = "wrapping" -> GT(t, 9, 10)
      [] phaseName \in {"pick", "insert_wrapper", "exit_wrapper", "place_in_tray"}
                                -> GT(t, 1, 2)
      [] OTHER                  -> FALSE

\* centerPivot.attach(currentBundle), counted
SH_attachToPivot(m) ==
    [Attach(m, "centerPivot", m.currentBundle)
        EXCEPT !.attachCalls = Min(m.attachCalls + 1, MaxCalls)]

\* case 'spawn'
SH_spawn(m, progress) ==
    IF SH_spawnGuard(m, progress)
    THEN LET new == FreshId(m)
         IN  [SceneAddNew(m, new, "raw") EXCEPT
                 !.currentBundle = new,
                 !.currentBundleIsWrapped = FALSE,
                 !.wrapCalls = 0]
    ELSE m

\* case 'pick' and case 'exit_wrapper'
SH_pick(m, t) == IF SH_attachGuard(m, t) THEN SH_attachToPivot(m) ELSE m

\* an insert that leaves the bundle on the arm
SH_insert_NoRelease(m, t) == m

\* case 'insert_wrapper'
SH_insert(m, t) ==
    IF SH_insertGuard(m, t) THEN Attach(m, "scene", m.currentBundle) ELSE m

\* a conversion that does not record currentBundleIsWrapped
SH_wrapping_NoFlag(m, t) ==
    IF SH_wrapGuard(m, t)
    THEN LET new == FreshId(m)
             r == SceneRemove(m, m.currentBundle)
         IN  [SceneAddNew(r, new, "wrapped") EXCEPT
                 !.currentBundle = new,
                 !.wrapCalls = Min(m.wrapCalls + 1, MaxCalls)]
    ELSE m

\* case 'wrapping'
SH_wrapping(m, t) ==
    IF SH_wrapGuard(m, t)
    THEN LET new == FreshId(m)
             r == SceneRemove(m, m.currentBundle)
         IN  [SceneAddNew(r, new, "wrapped") EXCEPT
                 !.currentBundle = new,
                 !.currentBundleIsWrapped = TRUE,
                 !.wrapCalls = Min(m.wrapCalls + 1, MaxCalls)]
    ELSE m

\* case 'place_in_tray'
SH_place(m, t, isLeft) ==
    IF SH_placeGuard(m, t)
    THEN LET trayBundles == IF isLeft THEN m.leftBundles ELSE m.rightBundles
             a == PlaceAt(m, m.currentBundle, Len(trayBundles))
         IN  [a EXCEPT
                 !.leftBundles  = IF isLeft THEN Append(@, m.currentBundle) ELSE @,
                 !.rightBundles = IF isLeft THEN @ ELSE Append(@, m.currentBundle),
                 !.currentBundle = Null,
                 !.currentBundleIsWrapped = FALSE,
                 !.serial = (m.currentBundle :> m.placed + 1) @@ @,
                 !.placed = @ + 1]
    ELSE m

\* case 'reset': cleanup of the left tray, then of the right tray
SH_cleanup(m) ==
    LET l == IF SH_cleanupGuard(m.leftBundles)
             THEN [SceneRemove(m, Head(m.leftBundles))
                      EXCEPT !.leftBundles = Tail(m.leftBundles),
                             !.evicted = @ + 1]
             ELSE m
    IN  IF SH_cleanupGuard(l.rightBundles)
        THEN [SceneRemove(l, Head(l.rightBundles))
                 EXCEPT !.rightBundles = Tail(l.rightBundles),
                        !.evicted = @ + 1]
        ELSE l

\* updateMachineAnimation(phaseName, progress, loopTime); m.cycleTime is
\* already advanced
SH_updateMachineAnimation(m0, phaseName, progress) ==
    LET t == easeInOutCubic(progress)
        currentCycle == m0.cycleTime \div SH_CYCLE_DURATION
        targetStation == SH_getTargetStation(m0.selectedStation, currentCycle)
        isLeft == targetStation = "left"
        m == [m0 EXCEPT !.currentStation = targetStation]
    IN  CASE phaseName = "spawn"          -> SH_spawn(m, progress)
          [] phaseName = "pick"           -> SH_pick(m, t)
          [] phaseName = "insert_wrapper" -> SH_insert(m, t)
          [] phaseName = "wrapping"       -> SH_wrapping(m, t)
          [] phaseName = "exit_wrapper"   -> SH_pick(m, t)
          [] phaseName = "place_in_tray"  -> SH_place(m, t, isLeft)
          [] phaseName = "reset"          -> SH_cleanup(m)
          [] OTHER                        -> m

\* Math.round in place of Math.floor
NewCycleCount_Round(cycleTime, duration) ==
    (2 * cycleTime + duration) \div (2 * duration)

\* newCycleCount = Math.floor(cycleTime / CYCLE_DURATION)
NewCycleCount(cycleTime, duration) == cycleTime \div duration

\* the body of animate() when !isPaused, for a frame of delta ticks
SH_frame(m, delta) ==
    LET cycleTime == m.cycleTime + delta * m.speed
        loopTime == cycleTime % SH_CYCLE_DURATION
        newCycleCount == NewCycleCount(cycleTime, SH_CYCLE_DURATION)
        i == FindPhase(SH_PHASES, loopTime)
        sameTraversal == /\ i # 0
                         /\ m.cycleText = SH_PHASES[i].name
                         /\ m.cycleCount = newCycleCount
        hot == i # 0 /\ SH_hot(SH_PHASES[i].name,
                                easeInOutCubic(Progress(SH_PHASES[i], loopTime)))
        m1 == [m EXCEPT !.cycleTime = cycleTime,
                        !.loopTime = loopTime,
                        !.cycleCount = newCycleCount,
                        !.attachCalls = IF sameTraversal THEN @ ELSE 0,
                        !.hotFrames =
                            Min((IF sameTraversal THEN @ ELSE 0) +
                                (IF hot THEN 1 ELSE 0), MaxCalls)]
    IN  IF i = 0 THEN m1
        ELSE SH_updateMachineAnimation(
                 [m1 EXCEPT !.cycleText = SH_PHASES[i].name],
                 SH_PHASES[i].name, Progress(SH_PHASES[i], loopTime))

\* animate(): one requestAnimationFrame callback
SH_animate ==
    /\ prog = "single"
    /\ \E delta \in Deltas :
         /\ single.isPaused \/
              single.cycleTime + delta * single.speed <= MaxCycles * SH_CYCLE_DURATION
         /\ single' = IF single.isPaused THEN single ELSE SH_frame(single, delta)
    /\ UNCHANGED <<prog, dual, press, timeline, hitches, twin, clock, pivot, sides>>

\* playPauseBtn click
SH_playPause ==
    /\ prog = "single"
    /\ single' = [single EXCEPT !.isPaused = ~@]
    /\ UNCHANGED <<prog, dual, press, timeline, hitches, twin, clock, pivot, sides>>

\* speedSlider input
SH_speedInput ==
    /\ prog = "single"
    /\ \E v \in Speeds \ {single.speed} :
         single' = [single EXCEPT !.speed = v]
    /\ UNCHANGED <<prog, dual, press, timeline, hitches, twin, clock, pivot, sides>>

\* stationSelect change
SH_stationChange ==
    /\ prog = "single"
    /\ \E v \in Stations \ {single.selectedStation} :
         single' = [single EXCEPT !.selectedStation = v]
    /\ UNCHANGED <<prog, dual, press, timeline, hitches, twin, clock, pivot, sides>>

\* the body of the resetBtn click handler
SH_resetHandler(m) ==
    LET a == [m EXCEPT !.cycleTime = 0, !.cycleCount = 0]
        b == SceneRemoveAll(SceneRemoveAll(a, a.leftBundles), a.rightBundles)
        c == [b EXCEPT !.leftBundles = <<>>, !.rightBundles = <<>>]
    IN  IF c.currentBundle # Null
        THEN [SceneRemove(c, c.currentBundle) EXCEPT !.currentBundle = Null]
        ELSE c

\* resetBtn click
SH_reset ==
    /\ prog = "single"
    /\ single.resets < MaxResets
    /\ single' = [SH_resetHandler(single) EXCEPT
                     !.hotFrames = 0, !.attachCalls = 0, !.wrapCalls = 0,
                     !.placed = 0, !.evicted = 0, !.resets = @ + 1]
    /\ UNCHANGED <<prog, dual, press, timeline, hitches, twin, clock, pivot, sides>>

SH_Next == SH_animate \/ SH_playPause \/ SH_speedInput \/ SH_stationChange \/ SH_reset

\* ============================== POSES =====================================
\* A pose value that a phase computes from its progress is kept as the term
\*   base + coef * e(at)
\* at the progress of the frame that assigned it and e the phase's easing
\* of the progress (the same for both arms).  A pivot angle is in units of
\* PI/4, a jaw position in units of 0.01.  Two terms are equal values when
\* they are the same term; Neg is the exact negation (IEEE arithmetic is
\* symmetric in the sign).
Fixed(b) == [base |-> b, coef |-> 0, at |-> <<0, 1>>]

Eased(b, c, p) == [base |-> b, coef |-> c, at |-> p]

Neg(x) == [x EXCEPT !.base = -@, !.coef = -@]

\* jaws[0].position.x = -d; jaws[1].position.x = d
Jaws(d) == <<Neg(d), d>>

\* centerPivot.rotation.y of the single-arm program after a frame of
\* phaseName, from its value before; case 'wrapping' assigns none
\*   pick                  t * 0
\*   transport_to_wrapper  t * targetAngle, targetAngle = +-PI/2
\*   insert_wrapper, exit_wrapper   +-PI/2
\*   transport_to_tray     startAngle + t * (trayAngle - startAngle)
\*   place_in_tray         +-(PI/2 + PI/4)
\*   reset                 finalAngle - t * finalAngle
SH_pose(rotation, phaseName, progress, isLeft) ==
    LET side(x) == IF isLeft THEN x ELSE Neg(x)
    IN  CASE phaseName \in {"spawn", "pick"} -> Fixed(0)
          [] phaseName = "transport_to_wrapper" -> side(Eased(0, 2, progress))
          [] phaseName \in {"insert_wrapper", "exit_wrapper"} -> side(Fixed(2))
          [] phaseName = "transport_to_tray" -> side(Eased(2, 1, progress))
          [] phaseName = "place_in_tray" -> side(Fixed(3))
          [] phaseName = "reset" -> side(Eased(3, -3, progress))
          [] OTHER -> rotation

\* where the position.set calls of the single-arm program have put bundles:
\*   machine        the side of the wrapping machine at which the in-flight
\*                  bundle was last positioned ("" if at none)
\*   placedMachine  that side for the bundle placed last
\*   placedTray     the side of the tray in which it was placed
Sides_Init == [machine |-> "", placedMachine |-> "", placedTray |-> ""]

\* the sides after a frame of phaseName on the state m (its time fields
\* already advanced): spawn positions a new bundle at the top station,
\* insert_wrapper and wrapping position the bundle at machineCfg,
\* place_in_tray positions it at trayCfg
SH_sides(sd, m, phaseName, progress, isLeft) ==
    LET t == easeInOutCubic(progress)
        side == IF isLeft THEN "left" ELSE "right"
    IN  CASE phaseName = "spawn" /\ SH_spawnGuard(m, progress) ->
               [sd EXCEPT !.machine = ""]
          [] phaseName = "insert_wrapper" /\ SH_insertGuard(m, t) ->
               [sd EXCEPT !.machine = side]
          [] phaseName = "wrapping" /\ m.currentBundle # Null ->
               [sd EXCEPT !.machine = side]
          [] phaseName = "place_in_tray" /\ SH_placeGuard(m, t) ->
               [machine |-> "", placedMachine |-> sd.machine,
                placedTray |-> side]
          [] OTHER -> sd

\* ============================ TWO ARMS ====================================
\* src/twoHand/app.js.  The glow toggle and the opacities it drives are
\* rendering only and are left out.

TH_CYCLE_DURATION == 480

TH_PHASES == <<
    [name |-> "spawn",                  start |-> 0,   end |-> 40],
    [name |-> "simultaneous_pick",      start |-> 40,  end |-> 100],
    [name |-> "simultaneous_transport", start |-> 100, end |-> 180],
    [name |-> "insert_wrappers",        start |-> 180, end |-> 200],
    [name |-> "wrapping_process",       start |-> 200, end |-> 300],
    [name |-> "exit_wrappers",          start |-> 300, end |-> 320],
    [name |-> "simultaneous_to_trays",  start |-> 320, end |-> 380],
    [name |-> "place_in_trays",         start |-> 380, end |-> 420],
    [name |-> "reset",                  start |-> 420, end |-> 480] >>

TH_Init ==
    [cycleTime |-> 0, cycleCount |-> 0, isPaused |-> FALSE, speed |-> 1,
     leftCount |-> 0, rightCount |-> 0,
     leftBundle |-> Null, rightBundle |-> Null,
     leftBundleWrapped |-> FALSE, rightBundleWrapped |-> FALSE,
     leftBundles |-> <<>>, rightBundles |-> <<>>,
     parent |-> <<>>, kind |-> <<>>, slot |-> <<>>, serial |-> <<>>,
     \* rotation.y of the arm pivots and position.x of the gripper jaws, as
     \* buildMachine leaves them
     leftArmPivot |-> Fixed(0), rightArmPivot |-> Fixed(0),
     leftGripperJaws |-> Jaws(Fixed(25)), rightGripperJaws |-> Jaws(Fixed(25)),
     \* what the last unpaused frame wrote to cycleTimer and cycleText
     loopTime |-> 0, cycleText |-> "",
     \* instrumentation, per arm: the pivot.attach calls of the current phase
     \* traversal, the conversions since the in-flight bundle was spawned;
     \* the reset clicks
     attachCallsL |-> 0, attachCallsR |-> 0,
     wrapCallsL |-> 0, wrapCallsR |-> 0, resets |-> 0]

\* if (!machine.leftBundle && progress < 0.1), if (!machine.rightBundle && ...)
TH_spawnGuard(bundle, progress) == bundle = Null /\ LT(progress, 1, 10)

\* if (machine.leftBundle && t > 0.5)   (pick, exit, place; either arm)
TH_halfGuard(bundle, t) == bundle # Null /\ GT(t, 1, 2)

\* if (machine.leftBundle && t > 0.5 && machine.leftBundle.parent !== scene)
TH_insertGuard(m, bundle, t) ==
    bundle # Null /\ GT(t, 1, 2) /\ m.parent[bundle] # "scene"

\* if (t > 0.85 && !machine.leftBundleWrapped && machine.leftBundle)
TH_wrapGuard(bundle, wrapped, t) == GT(t, 17, 20) /\ ~wrapped /\ bundle # Null

\* if (machine.leftBundles.length > 8) / if (machine.rightBundles.length > 8)
TH_cleanupGuard(list) == Len(list) > 8

\* case 'spawn'
TH_spawn(m, progress) ==
    LET l == IF TH_spawnGuard(m.leftBundle, progress)
             THEN LET new == FreshId(m)
                  IN  [SceneAddNew(m, new, "raw") EXCEPT
                          !.leftBundle = new, !.leftBundleWrapped = FALSE,
                          !.wrapCallsL = 0]
             ELSE m
    IN  IF TH_spawnGuard(l.rightBundle, progress)
        THEN LET new == FreshId(l)
             IN  [SceneAddNew(l, new, "raw") EXCEPT
                     !.rightBundle = new, !.rightBundleWrapped = FALSE,
                     !.wrapCallsR = 0]
        ELSE l

\* case 'simultaneous_pick' and case 'exit_wrappers'
TH_pick(m, t) ==
    LET l == IF TH_halfGuard(m.leftBundle, t)
             THEN [Attach(m, "leftArmPivot", m.leftBundle) EXCEPT
                      !.attachCallsL = Min(@ + 1, MaxCalls)]
             ELSE m
    IN  IF TH_halfGuard(l.rightBundle, t)
        THEN [Attach(l, "rightArmPivot", l.rightBundle) EXCEPT
                 !.attachCallsR = Min(@ + 1, MaxCalls)]
        ELSE l

\* case 'insert_wrappers'
TH_insert(m, t) ==
    LET l == IF TH_insertGuard(m, m.leftBundle, t)
             THEN Attach(m, "scene", m.leftBundle) ELSE m
    IN  IF TH_insertGuard(l, l.rightBundle, t)
        THEN Attach(l, "scene", l.rightBundle) ELSE l

\* case 'wrapping_process'
TH_wrapping(m, t) ==
    LET l == IF TH_wrapGuard(m.leftBundle, m.leftBundleWrapped, t)
             THEN LET new == FreshId(m)
                      r == SceneRemove(m, m.leftBundle)
                  IN  [SceneAddNew(r, new, "wrapped") EXCEPT
                          !.leftBundle = new, !.leftBundleWrapped = TRUE,
                          !.wrapCallsL = Min(@ + 1, MaxCalls)]
             ELSE m
    IN  IF TH_wrapGuard(l.rightBundle, l.rightBundleWrapped, t)
        THEN LET new == FreshId(l)
                 r == SceneRemove(l, l.rightBundle)
             IN  [SceneAddNew(r, new, "wrapped") EXCEPT
                     !.rightBundle = new, !.rightBundleWrapped = TRUE,
                     !.wrapCallsR = Min(@ + 1, MaxCalls)]
        ELSE l

\* a placement that leaves leftBundle and rightBundle set
TH_place_KeepsCarrying(m, t) ==
    LET l == IF TH_halfGuard(m.leftBundle, t)
             THEN [PlaceAt(m, m.leftBundle, Len(m.leftBundles)) EXCEPT
                      !.leftBundles = Append(@, m.leftBundle),
                      !.leftCount = @ + 1]
             ELSE m
    IN  IF TH_halfGuard(l.rightBundle, t)
        THEN [PlaceAt(l, l.rightBundle, Len(l.rightBundles)) EXCEPT
                 !.rightBundles = Append(@, l.rightBundle),
                 !.rightCount = @ + 1]
        ELSE l

\* a placement that serves the left arm only
TH_place_LeftOnly(m, t) ==
    IF TH_halfGuard(m.leftBundle, t)
    THEN [PlaceAt(m, m.leftBundle, Len(m.leftBundles)) EXCEPT
             !.leftBundles = Append(@, m.leftBundle),
             !.leftBundle = Null, !.leftBundleWrapped = FALSE,
             !.leftCount = @ + 1]
    ELSE m

\* case 'place_in_trays'
TH_place(m, t) ==
    LET l == IF TH_halfGuard(m.leftBundle, t)
             THEN [PlaceAt(m, m.leftBundle, Len(m.leftBundles)) EXCEPT
                      !.leftBundles = Append(@, m.leftBundle),
                      !.leftBundle = Null, !.leftBundleWrapped = FALSE,
                      !.leftCount = @ + 1]
             ELSE m
    IN  IF TH_halfGuard(l.rightBundle, t)
        THEN [PlaceAt(l, l.rightBundle, Len(l.rightBundles)) EXCEPT
                 !.rightBundles = Append(@, l.rightBundle),
                 !.rightBundle = Null, !.rightBundleWrapped = FALSE,
                 !.rightCount = @ + 1]
        ELSE l

\* case 'reset': cleanup of the left tray, then of the right tray
TH_cleanup(m) ==
    LET l == IF TH_cleanupGuard(m.leftBundles)
             THEN [SceneRemove(m, Head(m.leftBundles))
                      EXCEPT !.leftBundles = Tail(m.leftBundles)]
             ELSE m
    IN  IF TH_cleanupGuard(l.rightBundles)
        THEN [SceneRemove(l, Head(l.rightBundles))
                 EXCEPT !.rightBundles = Tail(l.rightBundles)]
        ELSE l

\* the pivot angles and jaw positions of a phase, with a right arm that
\* turns to the tray on the left arm's side
TH_pose_SameSide(m, phaseName, progress) ==
    LET arms(l, r, d) == [m EXCEPT !.leftArmPivot = l, !.rightArmPivot = r,
                                   !.leftGripperJaws = Jaws(d),
                                   !.rightGripperJaws = Jaws(d)]
    IN  CASE phaseName = "spawn" ->
               arms(Fixed(0), Fixed(0), Fixed(35))
          [] phaseName = "simultaneous_pick" ->
               arms(Fixed(0), Fixed(0), Eased(35, -10, progress))
          [] phaseName = "simultaneous_transport" ->
               arms(Eased(0, 2, progress), Eased(0, -2, progress), Fixed(25))
          [] phaseName = "insert_wrappers" ->
               arms(Fixed(2), Fixed(-2), Eased(25, 15, progress))
          [] phaseName = "exit_wrappers" ->
               arms(Fixed(2), Fixed(-2), Eased(35, -10, progress))
          [] phaseName = "simultaneous_to_trays" ->
               arms(Eased(2, 1, progress), Eased(-2, 1, progress), Fixed(25))
          [] phaseName = "place_in_trays" ->
               arms(Fixed(3), Fixed(-3), Eased(25, 15, progress))
          [] phaseName = "reset" ->
               arms(Eased(3, -3, progress), Eased(-3, 3, progress), Fixed(35))
          [] OTHER -> m

\* the pivot angles and jaw positions that the case of phaseName assigns;
\* case 'wrapping_process' assigns none
\*   simultaneous_transport  easeInOutQuad(t) * (PI/2), * (-PI/2)
\*   simultaneous_to_trays   PI/2 + easeInOutQuad(t) * (PI/4),
\*                           -PI/2 + easeInOutQuad(t) * (-PI/4)
\*   reset                   finalAngle - easeInOutQuad(t) * finalAngle
\*   jaws                    0.35 - t * 0.1 (pick, exit), 0.25 + t * 0.15
\*                           (insert, place)
TH_pose(m, phaseName, progress) ==
    LET arms(l, r, d) == [m EXCEPT !.leftArmPivot = l, !.rightArmPivot = r,
                                   !.leftGripperJaws = Jaws(d),
                                   !.rightGripperJaws = Jaws(d)]
    IN  CASE phaseName = "spawn" ->
               arms(Fixed(0), Fixed(0), Fixed(35))
          [] phaseName = "simultaneous_pick" ->
               arms(Fixed(0), Fixed(0), Eased(35, -10, progress))
          [] phaseName = "simultaneous_transport" ->
               arms(Eased(0, 2, progress), Eased(0, -2, progress), Fixed(25))
          [] phaseName = "insert_wrappers" ->
               arms(Fixed(2), Fixed(-2), Eased(25, 15, progress))
          [] phaseName = "exit_wrappers" ->
               arms(Fixed(2), Fixed(-2), Eased(35, -10, progress))
          [] phaseName = "simultaneous_to_trays" ->
               arms(Eased(2, 1, progress), Eased(-2, -1, progress), Fixed(25))
          [] phaseName = "place_in_trays" ->
               arms(Fixed(3), Fixed(-3), Eased(25, 15, progress))
          [] phaseName = "reset" ->
               arms(Eased(3, -3, progress), Eased(-3, 3, progress), Fixed(35))
          [] OTHER -> m

\* updateMachineAnimation(phaseName, progress, loopTime)
TH_updateMachineAnimation(m0, phaseName, progress) ==
    LET t == easeInOutCubic(progress)
        m == TH_pose(m0, phaseName, progress)
    IN  CASE phaseName = "spawn"             -> TH_spawn(m, progress)
          [] phaseName = "simultaneous_pick" -> TH_pick(m, t)
          [] phaseName = "insert_wrappers"   -> TH_insert(m, t)
          [] phaseName = "wrapping_process"  -> TH_wrapping(m, t)
          [] phaseName = "exit_wrappers"     -> TH_pick(m, t)
          [] phaseName = "place_in_trays"    -> TH_place(m, t)
          [] phaseName = "reset"             -> TH_cleanup(m)
          [] OTHER                           -> m

\* the body of animate() when !isPaused, for a frame of delta ticks
TH_frame(m, delta) ==
    LET cycleTime == m.cycleTime + delta * m.speed
        loopTime == cycleTime % TH_CYCLE_DURATION
        newCycleCount == NewCycleCount(cycleTime, TH_CYCLE_DURATION)
        i == FindPhase(TH_PHASES, loopTime)
        sameTraversal == /\ i # 0
                         /\ m.cycleText = TH_PHASES[i].name
                         /\ m.cycleCount = newCycleCount
        m1 == [m EXCEPT !.cycleTime = cycleTime,
                        !.loopTime = loopTime,
                        !.cycleCount = newCycleCount,
                        !.attachCallsL = IF sameTraversal THEN @ ELSE 0,
                        !.attachCallsR = IF sameTraversal THEN @ ELSE 0]
    IN  IF i = 0 THEN m1
        ELSE TH_updateMachineAnimation(
                 [m1 EXCEPT !.cycleText = TH_PHASES[i].name],
                 TH_PHASES[i].name, Progress(TH_PHASES[i], loopTime))

\* animate(): one requestAnimationFrame callback
TH_animate ==
    /\ prog = "dual"
    /\ \E delta \in Deltas :
         /\ dual.isPaused \/
              dual.cycleTime + delta * dual.speed <= MaxCycles * TH_CYCLE_DURATION
         /\ dual' = IF dual.isPaused THEN dual ELSE TH_frame(dual, delta)
    /\ UNCHANGED <<prog, single, press, timeline, hitches, twin, clock, pivot, sides>>

\* playPauseBtn click
TH_playPause ==
    /\ prog = "dual"
    /\ dual' = [dual EXCEPT !.isPaused = ~@]
    /\ UNCHANGED <<prog, single, press, timeline, hitches, twin, clock, pivot, sides>>

\* speedSlider input
TH_speedInput ==
    /\ prog = "dual"
    /\ \E v \in Speeds \ {dual.speed} : dual' = [dual EXCEPT !.speed = v]
    /\ UNCHANGED <<prog, single, press, timeline, hitches, twin, clock, pivot, sides>>

\* a reset handler that leaves the counters alone
TH_resetHandler_KeepsCounts(m) ==
    LET a == [m EXCEPT !.cycleTime = 0]
        b == SceneRemoveAll(SceneRemoveAll(a, a.leftBundles), a.rightBundles)
        c == [b EXCEPT !.leftBundles = <<>>, !.rightBundles = <<>>]
        d == IF c.leftBundle # Null
             THEN [SceneRemove(c, c.leftBundle) EXCEPT !.leftBundle = Null]
             ELSE c
    IN  IF d.rightBundle # Null
        THEN [SceneRemove(d, d.rightBundle) EXCEPT !.rightBundle = Null]
        ELSE d

\* the body of the resetBtn click handler
TH_resetHandler(m) ==
    LET a == [m EXCEPT !.cycleTime = 0, !.cycleCount = 0,
                       !.leftCount = 0, !.rightCount = 0]
        b == SceneRemoveAll(SceneRemoveAll(a, a.leftBundles), a.rightBundles)
        c == [b EXCEPT !.leftBundles = <<>>, !.rightBundles = <<>>]
        d == IF c.leftBundle # Null
             THEN [SceneRemove(c, c.leftBundle) EXCEPT !.leftBundle = Null]
             ELSE c
    IN  IF d.rightBundle # Null
        THEN [SceneRemove(d, d.rightBundle) EXCEPT !.rightBundle = Null]
        ELSE d

\* resetBtn click
TH_reset ==
    /\ prog = "dual"
    /\ dual.resets < MaxResets
    /\ dual' = [TH_resetHandler(dual) EXCEPT
                   !.attachCallsL = 0, !.attachCallsR = 0,
                   !.wrapCallsL = 0, !.wrapCallsR = 0, !.resets = @ + 1]
    /\ UNCHANGED <<prog, single, press, timeline, hitches, twin, clock, pivot, sides>>

TH_Next == TH_animate \/ TH_playPause \/ TH_speedInput \/ TH_reset

\* =========================== PRESS VARIANT ================================
\* src/singleHand/app.js, lines 755-1445

PR_CYCLE_DURATION == 560

PR_PHASES == <<
    [name |-> "spawn",              start |-> 0,   end |-> 40],
    [name |-> "pickup",             start |-> 40,  end |-> 120],
    [name |-> "transport_to_press", start |-> 120, end |-> 200],
    [name |-> "press_down",         start |-> 200, end |-> 260],
    [name |-> "vibration",          start |-> 260, end |-> 300],
    [name |-> "hold_pressed",       start |-> 300, end |-> 340],
    [name |-> "release",            start |-> 340, end |-> 380],
    [name |-> "wrapping",           start |-> 380, end |-> 460],
    [name |-> "eject",              start |-> 460, end |-> 480],
    [name |-> "transport_to_tray",  start |-> 480, end |-> 520],
    [name |-> "place_in_tray",      start |-> 520, end |-> 560] >>

PR_Init ==
    [cycleTime |-> 0, isPlaying |-> TRUE, speed |-> 1,
     leftBundle |-> Null, rightBundle |-> Null,
     leftTrayBundles |-> <<>>, rightTrayBundles |-> <<>>,
     bundleCount |-> 0,
     parent |-> <<>>, kind |-> <<>>, slot |-> <<>>, serial |-> <<>>,
     \* group.rotation.y of the arms and position.x of their jaws, as
     \* createArm leaves them
     leftArm |-> [rotation |-> Fixed(0), jaws |-> Jaws(Fixed(35))],
     rightArm |-> [rotation |-> Fixed(0), jaws |-> Jaws(Fixed(35))],
     \* what the last played frame wrote to ui.cycleTime and ui.currentPhase
     loopTime |-> 0, currentPhase |-> "",
     \* instrumentation, per arm: the conversions since the in-flight bundle
     \* was spawned; the reset clicks
     wrapCallsL |-> 0, wrapCallsR |-> 0, resets |-> 0]

\* bundle.children.length: a raw bundle is a Mesh without children, a wrapped
\* bundle is a Group of one cylinder and four tape bands
PR_childrenLength(knd) == IF knd = "raw" THEN 0 ELSE 5

\* if (leftBundle && leftBundle.parent !== machine.leftArm.group)
PR_attachGuard(m, bundle, arm) == bundle # Null /\ m.parent[bundle] # arm

\* if (leftBundle && leftBundle.parent !== scene)
PR_detachGuard(m, bundle) == bundle # Null /\ m.parent[bundle] # "scene"

\* if (leftBundle && leftBundle.children.length < 2)
PR_wrapGuard(m, bundle) ==
    bundle # Null /\ PR_childrenLength(m.kind[bundle]) < 2

\* case 'spawn'
PR_spawn(m) ==
    LET l == IF m.leftBundle = Null
             THEN LET new == FreshId(m)
                  IN  [SceneAddNew(m, new, "raw") EXCEPT
                          !.leftBundle = new, !.wrapCallsL = 0]
             ELSE m
    IN  IF l.rightBundle = Null
        THEN LET new == FreshId(l)
             IN  [SceneAddNew(l, new, "raw") EXCEPT
                     !.rightBundle = new, !.wrapCallsR = 0]
        ELSE l

\* case 'pickup' and case 'eject': if (progress > 0.5) { ... }
PR_pickup(m, progress) ==
    IF GT(progress, 1, 2)
    THEN LET l == IF PR_attachGuard(m, m.leftBundle, "leftArm")
                  THEN Attach(m, "leftArm", m.leftBundle) ELSE m
         IN  IF PR_attachGuard(l, l.rightBundle, "rightArm")
             THEN Attach(l, "rightArm", l.rightBundle) ELSE l
    ELSE m

\* case 'press_down': if (progress > 0.3) { ... }
PR_pressDown(m, progress) ==
    IF GT(progress, 3, 10)
    THEN LET l == IF PR_detachGuard(m, m.leftBundle)
                  THEN Attach(m, "scene", m.leftBundle) ELSE m
         IN  IF PR_detachGuard(l, l.rightBundle)
             THEN Attach(l, "scene", l.rightBundle) ELSE l
    ELSE m

\* case 'wrapping': if (progress > 0.8) { ... }
PR_wrapping(m, progress) ==
    IF GT(progress, 4, 5)
    THEN LET l == IF PR_wrapGuard(m, m.leftBundle)
                  THEN LET new == FreshId(m)
                           r == SceneRemove(m, m.leftBundle)
                       IN  [SceneAddNew(r, new, "wrapped") EXCEPT
                               !.leftBundle = new,
                               !.wrapCallsL = Min(@ + 1, MaxCalls)]
                  ELSE m
         IN  IF PR_wrapGuard(l, l.rightBundle)
             THEN LET new == FreshId(l)
                      r == SceneRemove(l, l.rightBundle)
                  IN  [SceneAddNew(r, new, "wrapped") EXCEPT
                          !.rightBundle = new,
                          !.wrapCallsR = Min(@ + 1, MaxCalls)]
             ELSE l
    ELSE m

\* case 'place_in_tray'
PR_place(m, progress) ==
    LET p == IF GT(progress, 1, 2)
             THEN LET l == IF PR_detachGuard(m, m.leftBundle)
                           THEN [PlaceAt(m, m.leftBundle, Len(m.leftTrayBundles))
                                    EXCEPT !.leftTrayBundles = Append(@, m.leftBundle),
                                           !.leftBundle = Null]
                           ELSE m
                  IN  IF PR_detachGuard(l, l.rightBundle)
                      THEN [PlaceAt(l, l.rightBundle, Len(l.rightTrayBundles))
                               EXCEPT !.rightTrayBundles = Append(@, l.rightBundle),
                                      !.rightBundle = Null]
                      ELSE l
             ELSE m
    IN  [p EXCEPT !.bundleCount = Len(p.leftTrayBundles) + Len(p.rightTrayBundles)]

\* the arm rotations and jaw positions that the case of phaseName assigns;
\* vibration, hold_pressed, release and wrapping assign none, press_down
\* assigns the jaws only if (progress > 0.3)
\*   transport_to_press  ease * (PI/2), ease * (-PI/2)
\*   transport_to_tray   PI/2 + ease * (PI/4), -PI/2 - ease * (PI/4)
\*   jaws                0.35 - ease * 0.15 (pickup), 0.4 - ease * 0.2 (eject),
\*                       0.2 + ease * 0.2 (place_in_tray)
PR_pose(m, phaseName, progress) ==
    LET arms(l, r, d) ==
            [m EXCEPT !.leftArm = [rotation |-> l, jaws |-> Jaws(d)],
                      !.rightArm = [rotation |-> r, jaws |-> Jaws(d)]]
        turn(l, r) ==
            [m EXCEPT !.leftArm.rotation = l, !.rightArm.rotation = r]
    IN  CASE phaseName = "spawn" ->
               arms(Fixed(0), Fixed(0), Fixed(35))
          [] phaseName = "pickup" ->
               arms(Fixed(0), Fixed(0), Eased(35, -15, progress))
          [] phaseName = "transport_to_press" ->
               arms(Eased(0, 2, progress), Eased(0, -2, progress), Fixed(20))
          [] phaseName = "press_down" ->
               IF GT(progress, 3, 10)
               THEN arms(Fixed(2), Fixed(-2), Fixed(40))
               ELSE turn(Fixed(2), Fixed(-2))
          [] phaseName = "eject" ->
               arms(Fixed(2), Fixed(-2), Eased(40, -20, progress))
          [] phaseName = "transport_to_tray" ->
               arms(Eased(2, 1, progress), Eased(-2, -1, progress), Fixed(20))
          [] phaseName = "place_in_tray" ->
               arms(Fixed(3), Fixed(-3), Eased(20, 20, progress))
          [] OTHER -> m

\* executePhase(phaseName, progress, time)
PR_executePhase(m0, phaseName, progress) ==
    LET m == PR_pose(m0, phaseName, progress)
    IN
    CASE phaseName = "spawn"         -> PR_spawn(m)
      [] phaseName = "pickup"        -> PR_pickup(m, progress)
      [] phaseName = "press_down"    -> PR_pressDown(m, progress)
      [] phaseName = "wrapping"      -> PR_wrapping(m, progress)
      [] phaseName = "eject"         -> PR_pickup(m, progress)
      [] phaseName = "place_in_tray" -> PR_place(m, progress)
      [] OTHER                       -> m

\* updateAnimation(); m.cycleTime is already advanced
PR_updateAnimation(m) ==
    LET t == m.cycleTime % PR_CYCLE_DURATION
        i == FindPhase(PR_PHASES, t)
        m1 == [m EXCEPT !.loopTime = t]
    IN  IF i = 0 THEN m1
        ELSE PR_executePhase([m1 EXCEPT !.currentPhase = PR_PHASES[i].name],
                             PR_PHASES[i].name, Progress(PR_PHASES[i], t))

\* the body of animate() when isPlaying, for a frame of delta ticks
PR_frame(m, delta) ==
    PR_updateAnimation([m EXCEPT !.cycleTime = @ + delta * m.speed])

\* animate(): one requestAnimationFrame callback
PR_animate ==
    /\ prog = "press"
    /\ \E delta \in Deltas :
         /\ ~press.isPlaying \/
              press.cycleTime + delta * press.speed <= MaxCycles * PR_CYCLE_DURATION
         /\ press' = IF press.isPlaying THEN PR_frame(press, delta) ELSE press
    /\ UNCHANGED <<prog, single, dual, timeline, hitches, twin, clock, pivot, sides>>

\* ui.playPause click
PR_playPause ==
    /\ prog = "press"
    /\ press' = [press EXCEPT !.isPlaying = ~@]
    /\ UNCHANGED <<prog, single, dual, timeline, hitches, twin, clock, pivot, sides>>

\* ui.speed input
PR_speedInput ==
    /\ prog = "press"
    /\ \E v \in Speeds \ {press.speed} : press' = [press EXCEPT !.speed = v]
    /\ UNCHANGED <<prog, single, dual, timeline, hitches, twin, clock, pivot, sides>>

\* the body of the ui.reset click handler
PR_resetHandler(m) ==
    LET a == [m EXCEPT !.cycleTime = 0, !.bundleCount = 0]
        b == IF a.leftBundle # Null THEN SceneRemove(a, a.leftBundle) ELSE a
        c == IF b.rightBundle # Null THEN SceneRemove(b, b.rightBundle) ELSE b
        d == SceneRemoveAll(SceneRemoveAll(c, c.leftTrayBundles), c.rightTrayBundles)
    IN  [d EXCEPT !.leftBundle = Null, !.rightBundle = Null,
                  !.leftTrayBundles = <<>>, !.rightTrayBundles = <<>>]

\* ui.reset click
PR_reset ==
    /\ prog = "press"
    /\ press.resets < MaxResets
    /\ press' = [PR_resetHandler(press) EXCEPT
                    !.wrapCallsL = 0, !.wrapCallsR = 0, !.resets = @ + 1]
    /\ UNCHANGED <<prog, single, dual, timeline, hitches, twin, clock, pivot, sides>>

PR_Next == PR_animate \/ PR_playPause \/ PR_speedInput \/ PR_reset

\* ============================ SPECIFICATIONS ==============================
Programs == {"single", "dual", "press"}

TL_Init == [table |-> "none", loopTime |-> 0, active |-> {}, phase |-> 0,
            progress |-> <<0, 1>>]

\* the THREE.Clock of the running program, relative to performance.now():
\*   sinceOld  now - clock.oldTime when the last callback returned
\*   gap       the time between the last two callbacks
\*   idle      callbacks run while paused since the last played one
\*             (saturates at MaxCalls)
\*   resumed   the last callback was played and followed paused ones
\* It is tracked by the clocked callbacks of SpecPause only.
Clock_Init == [sinceOld |-> 0, gap |-> 0, idle |-> 0, resumed |-> FALSE]

\* clock.getDelta() in a callback that comes gap ticks after the previous
\* one: the time since oldTime is returned and oldTime becomes now
getDelta(c, gap) ==
    [delta |-> c.sinceOld + gap, clock |-> [c EXCEPT !.sinceOld = 0, !.gap = gap]]

\* a callback that leaves the clock alone
skipDelta(c, gap) ==
    [delta |-> 0, clock |-> [c EXCEPT !.sinceOld = @ + gap, !.gap = gap]]

\* the bookkeeping of paused and played callbacks
Clock_note(c, paused) ==
    IF paused THEN [c EXCEPT !.idle = Min(@ + 1, MaxCalls), !.resumed = FALSE]
    ELSE [c EXCEPT !.idle = 0, !.resumed = (c.idle > 0)]

\* ----- Spec: each program under any frame deltas and UI events ------------
Init ==
    /\ prog \in Programs
    /\ single = SH_Init
    /\ dual = TH_Init
    /\ press = PR_Init
    /\ timeline = TL_Init
    /\ hitches = 0
    /\ twin = SH_Init
    /\ clock = Clock_Init
    /\ pivot = Fixed(0)
    /\ sides = Sides_Init

Next == SH_Next \/ TH_Next \/ PR_Next

Spec == Init /\ [][Next]_vars

\* ----- SpecRun: long runs of the three programs ---------------------------
\* the station is selected before the first frame and no UI event follows;
\* 25 ms frames, and at most MaxHitches long frames (hitches counts them)

\* stationSelect change, before the first frame
SH_configure ==
    /\ prog = "single"
    /\ single.cycleText = "" /\ single.selectedStation = "left"
    /\ \E v \in Stations \ {"left"} :
         single' = [single EXCEPT !.selectedStation = v]
    /\ UNCHANGED <<prog, dual, press, timeline, hitches, twin, clock, pivot, sides>>

SH_run ==
    /\ prog = "single"
    /\ \E delta \in RunDelta \cup Hitches :
         /\ single.cycleTime + delta * single.speed
               <= MaxRunCycles * SH_CYCLE_DURATION
         /\ delta \in Hitches => hitches < MaxHitches
         /\ single' = SH_frame(single, delta)
         /\ hitches' = IF delta \in Hitches THEN hitches + 1 ELSE hitches
    /\ UNCHANGED <<prog, dual, press, timeline, twin, clock, pivot, sides>>

TH_run ==
    /\ prog = "dual"
    /\ \E delta \in RunDelta \cup Hitches :
         /\ dual.cycleTime + delta * dual.speed
               <= MaxRunCycles * TH_CYCLE_DURATION
         /\ delta \in Hitches => hitches < MaxHitches
         /\ dual' = TH_frame(dual, delta)
         /\ hitches' = IF delta \in Hitches THEN hitches + 1 ELSE hitches
    /\ UNCHANGED <<prog, single, press, timeline, twin, clock, pivot, sides>>

\* the press variant has no cleanup that a long frame could skip: 25 ms
\* frames only
PR_run ==
    /\ prog = "press"
    /\ \E delta \in RunDelta :
         /\ press.cycleTime + delta * press.speed
               <= MaxRunCycles * PR_CYCLE_DURATION
         /\ press' = PR_frame(press, delta)
    /\ UNCHANGED <<prog, single, dual, timeline, hitches, twin, clock, pivot, sides>>

InitRun == Init

NextRun == SH_configure \/ SH_run \/ TH_run \/ PR_run

SpecRun == InitRun /\ [][NextRun]_vars

\* ----- SpecTwin: two runs of the single-arm program -----------------------
\* twin is a second instance of the single-arm program.  Both instances get
\* the same station before the first frame and no UI event afterwards; each
\* divides the elapsed time into frames of its own.  The instance that is
\* behind in cycleTime takes the next frame.

\* stationSelect change, before the first frame, in both instances
TW_configure ==
    /\ prog = "single"
    /\ single.cycleText = "" /\ twin.cycleText = ""
    /\ single.selectedStation = "left"
    /\ \E v \in Stations \ {"left"} :
         /\ single' = [single EXCEPT !.selectedStation = v]
         /\ twin' = [twin EXCEPT !.selectedStation = v]
    /\ UNCHANGED <<prog, dual, press, timeline, hitches, clock, pivot, sides>>

\* animate() in the first instance
TW_animate ==
    /\ prog = "single"
    /\ single.cycleTime <= twin.cycleTime
    /\ \E delta \in TwinDeltas :
         /\ single.cycleTime + delta <= MaxTwinCycles * SH_CYCLE_DURATION
         /\ single' = SH_frame(single, delta)
    /\ UNCHANGED <<prog, dual, press, timeline, hitches, twin, clock, pivot, sides>>

\* animate() in the second instance
TW_animateTwin ==
    /\ prog = "single"
    /\ twin.cycleTime <= single.cycleTime
    /\ \E delta \in TwinDeltas :
         /\ twin.cycleTime + delta <= MaxTwinCycles * SH_CYCLE_DURATION
         /\ twin' = SH_frame(twin, delta)
    /\ UNCHANGED <<prog, single, dual, press, timeline, hitches, clock, pivot, sides>>

InitTwin == Init /\ prog = "single"

NextTwin == TW_configure \/ TW_animate \/ TW_animateTwin

SpecTwin == InitTwin /\ [][NextTwin]_vars

\* ----- SpecScenario: the single-arm program sampled every 0.1 s -----------
\* the station is selected before the first frame; the first frame has
\* delta 0 (cycleTime 0.0), every later frame has delta 0.1 s at speed 1

\* animate(), the first callback
SC_firstFrame ==
    /\ prog = "single"
    /\ single.cycleText = ""
    /\ single' = SH_frame(single, 0)
    /\ UNCHANGED <<prog, dual, press, timeline, hitches, twin, clock, pivot, sides>>

\* animate(), the later callbacks
SC_frame ==
    /\ prog = "single"
    /\ single.cycleText # ""
    /\ \E delta \in ScenarioDeltas :
         /\ single.cycleTime + delta <= MaxScenarioCycles * SH_CYCLE_DURATION
         /\ single' = SH_frame(single, delta)
    /\ UNCHANGED <<prog, dual, press, timeline, hitches, twin, clock, pivot, sides>>

InitScenario == Init /\ prog = "single"

NextScenario == SH_configure \/ SC_firstFrame \/ SC_frame

SpecScenario == InitScenario /\ [][NextScenario]_vars

\* ----- SpecFine: the single-arm and the dual-arm program, fine frames ------
\* no UI event; the first frame has delta 0 (the clock starts in the first
\* getDelta()), every later frame has a delta of 25, 50 or 75 ms at speed 1

\* animate(), the first callback, single-arm program
SH_fineFirst ==
    /\ prog = "single"
    /\ single.cycleText = ""
    /\ single' = SH_frame(single, 0)
    /\ UNCHANGED <<prog, dual, press, timeline, hitches, twin, clock, pivot, sides>>

\* animate(), the later callbacks, single-arm program
SH_fine ==
    /\ prog = "single"
    /\ single.cycleText # ""
    /\ single.cycleTime < MaxFineCycles * SH_CYCLE_DURATION
    /\ \E delta \in FineDeltas : single' = SH_frame(single, delta)
    /\ UNCHANGED <<prog, dual, press, timeline, hitches, twin, clock, pivot, sides>>

\* animate(), the first callback, dual-arm program
TH_fineFirst ==
    /\ prog = "dual"
    /\ dual.cycleText = ""
    /\ dual' = TH_frame(dual, 0)
    /\ UNCHANGED <<prog, single, press, timeline, hitches, twin, clock, pivot, sides>>

\* animate(), the later callbacks, dual-arm program
TH_fine ==
    /\ prog = "dual"
    /\ dual.cycleText # ""
    /\ dual.cycleTime < MaxFineCycles * TH_CYCLE_DURATION
    /\ \E delta \in FineDeltas : dual' = TH_frame(dual, delta)
    /\ UNCHANGED <<prog, single, press, timeline, hitches, twin, clock, pivot, sides>>

InitFine == Init /\ prog \in {"single", "dual"}

NextFine == SH_fineFirst \/ SH_fine \/ TH_fineFirst \/ TH_fine

SpecFine == InitFine /\ [][NextFine]_vars

\* ----- SpecFineEvents: the dual-arm program, fine frames and UI events -----
\* every frame advances cycleTime by less than 0.1 simulated seconds
\* (delta * speed of at most 3 ticks); pause, speed and reset events at any
\* time

\* animate(): one requestAnimationFrame callback
TH_fineAnimate ==
    /\ prog = "dual"
    /\ \E delta \in FineDeltas \cup {0} :
         /\ delta * dual.speed < 4
         /\ dual.isPaused \/ dual.cycleTime < MaxFineCycles * TH_CYCLE_DURATION
         /\ dual' = IF dual.isPaused THEN dual ELSE TH_frame(dual, delta)
    /\ UNCHANGED <<prog, single, press, timeline, hitches, twin, clock, pivot, sides>>

InitFineEvents == Init /\ prog = "dual"

NextFineEvents == TH_fineAnimate \/ TH_playPause \/ TH_speedInput \/ TH_reset

SpecFineEvents == InitFineEvents /\ [][NextFineEvents]_vars

\* ----- SpecPause: the three programs with the clock, pause and speed ------
\* callbacks come 0, 200 ms or 1 s apart; playPause and the speed slider are
\* used at any time; no reset

\* animate() that reads the clock only when the simulation is not paused
SH_animateClocked_LazyClock ==
    /\ prog = "single"
    /\ \E gap \in PauseGaps :
         LET r == IF single.isPaused THEN skipDelta(clock, gap)
                  ELSE getDelta(clock, gap)
         IN  /\ single.cycleTime + r.delta * single.speed
                   <= MaxCycles * SH_CYCLE_DURATION
             /\ r.clock.sinceOld <= SH_CYCLE_DURATION
             /\ single' = IF single.isPaused THEN single
                          ELSE SH_frame(single, r.delta)
             /\ clock' = Clock_note(r.clock, single.isPaused)
    /\ UNCHANGED <<prog, dual, press, timeline, hitches, twin, pivot, sides>>

\* animate() of the single-arm program, with the clock
SH_animateClocked ==
    /\ prog = "single"
    /\ \E gap \in PauseGaps :
         LET r == getDelta(clock, gap)
         IN  /\ single.isPaused \/
                   single.cycleTime + r.delta * single.speed
                      <= MaxCycles * SH_CYCLE_DURATION
             /\ single' = IF single.isPaused THEN single
                          ELSE SH_frame(single, r.delta)
             /\ clock' = Clock_note(r.clock, single.isPaused)
    /\ UNCHANGED <<prog, dual, press, timeline, hitches, twin, pivot, sides>>

\* animate() of the dual-arm program, with the clock
TH_animateClocked ==
    /\ prog = "dual"
    /\ \E gap \in PauseGaps :
         LET r == getDelta(clock, gap)
         IN  /\ dual.isPaused \/
                   dual.cycleTime + r.delta * dual.speed
                      <= MaxCycles * TH_CYCLE_DURATION
             /\ dual' = IF dual.isPaused THEN dual
                        ELSE TH_frame(dual, r.delta)
             /\ clock' = Clock_note(r.clock, dual.isPaused)
    /\ UNCHANGED <<prog, single, press, timeline, hitches, twin, pivot, sides>>

\* animate() of the press variant, with the clock
PR_animateClocked ==
    /\ prog = "press"
    /\ \E gap \in PauseGaps :
         LET r == getDelta(clock, gap)
         IN  /\ ~press.isPlaying \/
                   press.cycleTime + r.delta * press.speed
                      <= MaxCycles * PR_CYCLE_DURATION
             /\ press' = IF press.isPlaying THEN PR_frame(press, r.delta)
                         ELSE press
             /\ clock' = Clock_note(r.clock, ~press.isPlaying)
    /\ UNCHANGED <<prog, single, dual, timeline, hitches, twin, pivot, sides>>

InitPause == Init

NextPause ==
    \/ SH_animateClocked \/ SH_playPause \/ SH_speedInput
    \/ TH_animateClocked \/ TH_playPause \/ TH_speedInput
    \/ PR_animateClocked \/ PR_playPause \/ PR_speedInput

SpecPause == InitPause /\ [][NextPause]_vars

\* ----- SpecPose: the single-arm program with the pivot angle ---------------
\* pivot is centerPivot.rotation.y (0 after buildMachine), sides records
\* where bundles were positioned; frames of any delta and stationSelect
\* changes at any time; no pause, no reset

\* animate() when !isPaused, with the pivot angle and the positions that
\* updateMachineAnimation assigns
SH_animatePosed ==
    /\ prog = "single"
    /\ \E delta \in Deltas :
         LET m == SH_frame(single, delta)
             i == FindPhase(SH_PHASES, m.loopTime)
         IN  /\ m.cycleTime <= MaxCycles * SH_CYCLE_DURATION
             /\ single' = m
             /\ pivot' = IF i = 0 THEN pivot
                         ELSE SH_pose(pivot, SH_PHASES[i].name,
                                      Progress(SH_PHASES[i], m.loopTime),
                                      m.currentStation = "left")
             /\ sides' = IF i = 0 THEN sides
                         ELSE SH_sides(sides, single, SH_PHASES[i].name,
                                       Progress(SH_PHASES[i], m.loopTime),
                                       m.currentStation = "left")
    /\ UNCHANGED <<prog, dual, press, timeline, hitches, twin, clock>>

InitPose == Init /\ prog = "single"

NextPose == SH_animatePosed \/ SH_stationChange

SpecPose == InitPose /\ [][NextPose]_vars

\* ----- SpecTimeline: the phase tables as pure functions of loopTime -------
PhasesOf(table) ==
    CASE table = "single" -> SH_PHASES
      [] table = "dual"   -> TH_PHASES
      [] table = "press"  -> PR_PHASES

DurationOf(table) ==
    CASE table = "single" -> SH_CYCLE_DURATION
      [] table = "dual"   -> TH_CYCLE_DURATION
      [] table = "press"  -> PR_CYCLE_DURATION

\* the phases with loopTime >= phase.start && loopTime < phase.end
ActivePhases(phases, loopTime) ==
    {i \in 1..Len(phases) :
        loopTime >= phases[i].start /\ loopTime < phases[i].end}

\* the phase lookup and the progress computation of a frame, for any table
\* and any loopTime of [0, CYCLE_DURATION)
TL_resolve ==
    /\ timeline.table = "none"
    /\ \E table \in Programs :
         \E loopTime \in 0..(DurationOf(table) - 1) :
            LET phases == PhasesOf(table)
                i == FindPhase(phases, loopTime)
            IN  timeline' =
                  [table |-> table, loopTime |-> loopTime,
                   active |-> ActivePhases(phases, loopTime),
                   phase |-> i,
                   progress |-> IF i = 0 THEN <<0, 1>>
                                ELSE Progress(phases[i], loopTime)]
    /\ UNCHANGED <<prog, single, dual, press, hitches, twin, clock, pivot, sides>>

SpecTimeline == Init /\ [][TL_resolve]_vars

\* ================================ CLAIMS ==================================
Range(list) == {list[i] : i \in 1..Len(list)}

NoDuplicate(list) == \A i, j \in 1..Len(list) : i # j => list[i] # list[j]

\* C1: in each of the three phase tables, every loopTime of
\* [0, CYCLE_DURATION) has exactly one phase with start <= loopTime < end, the
\* lookup finds it, and its progress n/d satisfies 0 <= n/d < 1 and is 0
\* exactly when loopTime is the start of the phase.
C1_ExactlyOnePhase ==
    timeline.table # "none" =>
        LET phases == PhasesOf(timeline.table)
            n == timeline.progress[1]
            d == timeline.progress[2]
        IN  /\ Cardinality(timeline.active) = 1
            /\ timeline.phase \in timeline.active
            /\ d > 0 /\ 0 <= n /\ n < d
            /\ (n = 0) <=> (timeline.loopTime = phases[timeline.phase].start)

\* the 12 s table resolved at 10.5 s, the start of its last phase
C1_Witness ==
    /\ timeline.table = "dual"
    /\ timeline.loopTime = 420
    /\ timeline.phase = 9
    /\ timeline.progress[1] = 0

\* C2: ownership exclusivity and consistency.  In every reachable state of
\* the single-arm and dual-arm programs a bundle is in at most one tray
\* list, at most once, a tray bundle is a child of the scene and is not an
\* in-flight bundle, and a bundle that is a child of an arm pivot is that
\* arm's recorded in-flight bundle.
C2_OwnershipExclusive ==
    /\ prog = "single" =>
         LET trays == single.leftBundles \o single.rightBundles
         IN  /\ NoDuplicate(trays)
             /\ single.currentBundle \notin Range(trays)
             /\ \A o \in Range(trays) :
                  o \in DOMAIN single.parent /\ single.parent[o] = "scene"
             /\ \A o \in DOMAIN single.parent :
                  single.parent[o] = "centerPivot" => o = single.currentBundle
    /\ prog = "dual" =>
         LET trays == dual.leftBundles \o dual.rightBundles
         IN  /\ NoDuplicate(trays)
             /\ dual.leftBundle \notin Range(trays)
             /\ dual.rightBundle \notin Range(trays)
             /\ \A o \in Range(trays) :
                  o \in DOMAIN dual.parent /\ dual.parent[o] = "scene"
             /\ \A o \in DOMAIN dual.parent :
                  /\ dual.parent[o] = "leftArmPivot" => o = dual.leftBundle
                  /\ dual.parent[o] = "rightArmPivot" => o = dual.rightBundle

\* C3: reset is safe at any point.  Right after the reset click handler has
\* run, in each of the three programs, no bundle is left in the scene graph
\* (neither under the scene nor under an arm), the in-flight references are
\* null and both tray lists are empty.
C3_ResetLeavesNothing ==
    [][ /\ single'.resets # single.resets =>
             /\ DOMAIN single'.parent = {}
             /\ single'.currentBundle = Null
             /\ single'.leftBundles = <<>> /\ single'.rightBundles = <<>>
        /\ dual'.resets # dual.resets =>
             /\ DOMAIN dual'.parent = {}
             /\ dual'.leftBundle = Null /\ dual'.rightBundle = Null
             /\ dual'.leftBundles = <<>> /\ dual'.rightBundles = <<>>
        /\ press'.resets # press.resets =>
             /\ DOMAIN press'.parent = {}
             /\ press'.leftBundle = Null /\ press'.rightBundle = Null
             /\ press'.leftTrayBundles = <<>> /\ press'.rightTrayBundles = <<>>
      ]_vars

\* C4: latch-once for transfers.  Across one traversal of the pick phase, and
\* of the exit phase, the attach of the in-flight bundle to its arm pivot is
\* executed at most once (single-arm and dual-arm programs).
C4_AttachOnce ==
    /\ single.attachCalls <= 1
    /\ dual.attachCallsL <= 1
    /\ dual.attachCallsR <= 1

\* C5: the transform is one-shot.  In all three programs the raw-to-wrapped
\* conversion is executed at most once between a bundle's spawn and its
\* placement, however many frames are sampled after the threshold.
C5_TransformOnce ==
    /\ single.wrapCalls <= 1
    /\ dual.wrapCallsL <= 1 /\ dual.wrapCallsR <= 1
    /\ press.wrapCallsL <= 1 /\ press.wrapCallsR <= 1

\* the wrapping phase sampled at least twice above its threshold, the
\* bundle converted once
C5_Witness ==
    /\ single.cycleText = "wrapping"
    /\ single.hotFrames >= 2
    /\ single.currentBundle # Null
    /\ single.kind[single.currentBundle] = "wrapped"
    /\ single.wrapCalls = 1

\* C6: the target station is held constant within a cycle.  In the
\* single-arm program, before any reset, two consecutive states of the same
\* cycle show the same target station, whatever the station selector does.
C6_TargetHeldInCycle ==
    [][ ( /\ prog = "single"
          /\ single.resets = 0 /\ single'.resets = 0
          /\ single.currentStation # ""
          /\ single'.cycleCount = single.cycleCount )
        => single'.currentStation = single.currentStation ]_vars

\* C7: alternate mode parity.  After every unpaused frame of the single-arm
\* program the target station is left (resp. right) when selectedStation is
\* 'left' (resp. 'right'), and otherwise left when the cycle index is even
\* and right when it is odd.
C7_AlternateParity ==
    [][ (SH_animate /\ ~single.isPaused) =>
          LET sel == single'.selectedStation
              c == single'.cycleCount
              even == \E k \in 0..c : c = 2 * k
          IN  single'.currentStation =
                IF sel = "left" THEN "left"
                ELSE IF sel = "right" THEN "right"
                ELSE IF even THEN "left" ELSE "right" ]_vars

\* a frame of cycle 1 in alternate mode, showing the right station
C7_Witness ==
    /\ prog = "single"
    /\ single.selectedStation = "both"
    /\ single.cycleCount = 1
    /\ single.loopTime > 0
    /\ single.currentStation = "right"

\* C8: cycle clock invariant (single-arm and dual-arm programs).  After every
\* unpaused frame 0 <= loopTime < CYCLE_DURATION and cycleTime =
\* cycleCount * CYCLE_DURATION + loopTime, so that cycleCount is 0 before
\* cycleTime reaches one cycle and 1 from then up to two cycles; and
\* cycleCount does not decrease in a step that is not a reset.
C8_ClockInvariant ==
    [][ /\ (SH_animate /\ ~single.isPaused) =>
             /\ 0 <= single'.loopTime /\ single'.loopTime < SH_CYCLE_DURATION
             /\ single'.cycleTime =
                  single'.cycleCount * SH_CYCLE_DURATION + single'.loopTime
             /\ (single'.cycleCount = 1) <=>
                  (320 <= single'.cycleTime /\ single'.cycleTime < 640)
        /\ (TH_animate /\ ~dual.isPaused) =>
             /\ 0 <= dual'.loopTime /\ dual'.loopTime < TH_CYCLE_DURATION
             /\ dual'.cycleTime =
                  dual'.cycleCount * TH_CYCLE_DURATION + dual'.loopTime
        /\ single'.resets = single.resets =>
             single'.cycleCount >= single.cycleCount
        /\ dual'.resets = dual.resets => dual'.cycleCount >= dual.cycleCount
      ]_vars

\* the frame at which cycleTime reaches 8.0 s exactly
C8_Witness ==
    /\ prog = "single"
    /\ single.resets = 0
    /\ single.cycleTime = 320
    /\ single.loopTime = 0
    /\ single.cycleCount = 1

\* C9: exactly-once cycle transition.  cycleCount never grows by 2 or more
\* in one frame (single-arm and dual-arm programs).
C9_NoDoubleJump ==
    [][ /\ single'.cycleCount <= single.cycleCount + 1
        /\ dual'.cycleCount <= dual.cycleCount + 1 ]_vars

\* C10: tray occupancy bound.  In the single-arm and dual-arm programs the
\* number of bundles in each tray list never exceeds capacity + 1 = 9.
C10_TrayBound ==
    /\ Len(single.leftBundles) <= 9 /\ Len(single.rightBundles) <= 9
    /\ Len(dual.leftBundles) <= 9 /\ Len(dual.rightBundles) <= 9

\* C11: tray occupancy bound of the press variant.  The number of bundles in
\* leftTrayBundles and in rightTrayBundles never exceeds 9, however many
\* cycles are executed.
C11_PressTrayBound ==
    /\ Len(press.leftTrayBundles) <= 9
    /\ Len(press.rightTrayBundles) <= 9

C13_EvictAtPlacement ==
    /\ prog = "single" =>
         Len(single.leftBundles) < 9 /\ Len(single.rightBundles) < 9
    /\ prog = "dual" =>
         Len(dual.leftBundles) < 9 /\ Len(dual.rightBundles) < 9

\* tray2 is tray with b appended, and b sits at the slot of index Len(tray)
PlacedLast(tray, tray2, slot2, b) ==
    /\ tray2 = Append(tray, b)
    /\ slot2[b] = <<Len(tray) \div 4, Len(tray) % 4>>

\* C14: slot assignment at placement.  In all three programs a tray list
\* grows only by the placement of the arm's in-flight bundle: the bundle is
\* appended at the end of the list and given slot (n div 4, n mod 4), n the
\* length of the list before; the placement leaves the other tray's list
\* unchanged (in the single-arm program no step changes both lists; with two
\* arms the other list changes at most by its own arm's placement).
C14_SlotAtPlacement ==
    [][ /\ Len(single'.leftBundles) > Len(single.leftBundles) =>
             /\ PlacedLast(single.leftBundles, single'.leftBundles,
                           single'.slot, single.currentBundle)
             /\ single'.rightBundles = single.rightBundles
        /\ Len(single'.rightBundles) > Len(single.rightBundles) =>
             /\ PlacedLast(single.rightBundles, single'.rightBundles,
                           single'.slot, single.currentBundle)
             /\ single'.leftBundles = single.leftBundles
        /\ Len(dual'.leftBundles) > Len(dual.leftBundles) =>
             /\ PlacedLast(dual.leftBundles, dual'.leftBundles,
                           dual'.slot, dual.leftBundle)
             /\ dual'.rightBundles \in
                  {dual.rightBundles, Append(dual.rightBundles, dual.rightBundle)}
        /\ Len(dual'.rightBundles) > Len(dual.rightBundles) =>
             /\ PlacedLast(dual.rightBundles, dual'.rightBundles,
                           dual'.slot, dual.rightBundle)
             /\ dual'.leftBundles \in
                  {dual.leftBundles, Append(dual.leftBundles, dual.leftBundle)}
        /\ Len(press'.leftTrayBundles) > Len(press.leftTrayBundles) =>
             /\ PlacedLast(press.leftTrayBundles, press'.leftTrayBundles,
                           press'.slot, press.leftBundle)
             /\ press'.rightTrayBundles \in
                  {press.rightTrayBundles,
                   Append(press.rightTrayBundles, press.rightBundle)}
        /\ Len(press'.rightTrayBundles) > Len(press.rightTrayBundles) =>
             /\ PlacedLast(press.rightTrayBundles, press'.rightTrayBundles,
                           press'.slot, press.rightBundle)
             /\ press'.leftTrayBundles \in
                  {press.leftTrayBundles,
                   Append(press.leftTrayBundles, press.leftBundle)}
      ]_vars

\* alternate mode: the left tray has just received its 6th bundle, in row 1
\* column 1, while the right tray holds 5
C14_Witness ==
    /\ prog = "single"
    /\ single.selectedStation = "both"
    /\ single.cycleText = "place_in_tray"
    /\ single.currentBundle = Null
    /\ Len(single.leftBundles) = 6
    /\ Len(single.rightBundles) = 5
    /\ single.slot[single.leftBundles[6]] = <<1, 1>>

\* C15: slot of the k-th occupant.  In every reachable state of the
\* single-arm and dual-arm programs, evictions included, the bundle at
\* 0-based position k of a tray list occupies slot (k div 4, k mod 4).
C15_SlotOfKth ==
    /\ \A k \in 0..(Len(single.leftBundles) - 1) :
         single.slot[single.leftBundles[k + 1]] = <<k \div 4, k % 4>>
    /\ \A k \in 0..(Len(single.rightBundles) - 1) :
         single.slot[single.rightBundles[k + 1]] = <<k \div 4, k % 4>>
    /\ \A k \in 0..(Len(dual.leftBundles) - 1) :
         dual.slot[dual.leftBundles[k + 1]] = <<k \div 4, k % 4>>
    /\ \A k \in 0..(Len(dual.rightBundles) - 1) :
         dual.slot[dual.rightBundles[k + 1]] = <<k \div 4, k % 4>>

\* the in-flight bundle of m as presence, owner and kind
InFlight(m) ==
    IF m.currentBundle = Null THEN <<"none">>
    ELSE <<"bundle", m.parent[m.currentBundle], m.kind[m.currentBundle]>>

\* a tray as the sequence of the kinds and slots of its bundles
TrayContents(m, list) ==
    [i \in 1..Len(list) |-> <<m.kind[list[i]], m.slot[list[i]]>>]

SH_Snapshot(m) ==
    <<m.loopTime, m.cycleCount, m.cycleText, m.currentStation,
      m.currentBundle, m.parent, m.kind, m.slot, m.leftBundles, m.rightBundles>>

\* the same for the dual-arm program
TH_Snapshot(m) ==
    <<m.loopTime, m.cycleCount, m.cycleText, m.leftBundle, m.rightBundle,
      m.parent, m.kind, m.slot, m.leftBundles, m.rightBundles>>

\* C17: zero-delta idempotence.  From every reachable state of the
\* single-arm and dual-arm programs, the snapshot (loopTime, cycleCount,
\* phase, owner, kind and slot of every bundle, both trays) after two
\* consecutive unpaused frames of delta 0 is the snapshot after the first.
C17_ZeroDeltaIdempotent ==
    /\ prog = "single" =>
         LET first == SH_frame(single, 0)
         IN  SH_Snapshot(SH_frame(first, 0)) = SH_Snapshot(first)
    /\ prog = "dual" =>
         LET first == TH_frame(dual, 0)
         IN  TH_Snapshot(TH_frame(first, 0)) = TH_Snapshot(first)

\* the run sampled every 0.1 s, in alternate mode, at a sampled frame
AlternateScenario ==
    /\ prog = "single"
    /\ single.selectedStation = "both"
    /\ single.cycleText # ""
    /\ single.cycleTime <= SH_CYCLE_DURATION

\* C18, as stated: with frames sampled at cycleTime 0.0, 0.1, ..., 8.0 in
\* alternate mode, a raw bundle is spawned at the frame cycleTime = 0 and it
\* is attached to the arm pivot at the frame cycleTime = 1.0.
C18_PickScenario ==
    AlternateScenario =>
        /\ single.cycleTime = 0 =>
             /\ single.currentBundle # Null
             /\ InFlight(single) = <<"bundle", "scene", "raw">>
        /\ single.cycleTime = 40 =>
             /\ single.currentBundle # Null
             /\ InFlight(single) = <<"bundle", "centerPivot", "raw">>

\* C18, amended: a raw bundle is spawned at the frame cycleTime = 0; at the
\* frame cycleTime = 1.0 (progress exactly 0.5 within pick) it is still a
\* child of the scene; it is attached to the arm pivot at the frame
\* cycleTime = 1.1 and at every later frame of pick.
C18_PickScenarioAmended ==
    AlternateScenario =>
        /\ single.cycleTime <= 40 =>
             /\ single.currentBundle # Null
             /\ InFlight(single) = <<"bundle", "scene", "raw">>
        /\ (44 <= single.cycleTime /\ single.cycleTime < 60) =>
             /\ single.currentBundle # Null
             /\ InFlight(single) = <<"bundle", "centerPivot", "raw">>
             /\ single.attachCalls >= 1

\* the frame cycleTime = 1.1, the first with eased progress above 0.5
C18_Witness ==
    /\ AlternateScenario
    /\ single.cycleTime = 44
    /\ single.cycleText = "pick"
    /\ single.attachCalls = 1
    /\ single.parent[single.currentBundle] = "centerPivot"

\* the bundle of cycle 0 lies alone in the left tray at slot (0,0)
PlacedLeftFirst ==
    /\ Len(single.leftBundles) = 1
    /\ single.rightBundles = <<>>
    /\ single.slot[single.leftBundles[1]] = <<0, 0>>
    /\ single.serial[single.leftBundles[1]] = 1
    /\ single.parent[single.leftBundles[1]] = "scene"

\* C19, as stated: with frames sampled at cycleTime 0.0, 0.1, ..., 8.0 in
\* alternate mode, the bundle of cycle 0 is in the left tray at slot (0,0) at
\* every sampled frame with cycleTime >= 7.25 and already at the last
\* sampled frame not later than 7.25 (cycleTime = 7.2).
C19_PlaceScenario ==
    (AlternateScenario /\ single.cycleTime >= 288) => PlacedLeftFirst

\* C19, amended: the bundle of cycle 0 is in the left tray at slot (0,0) at
\* every sampled frame with cycleTime >= 7.25, the first being 7.3; at the
\* frame cycleTime = 7.2 it is still carried by the arm.
C19_PlaceScenarioAmended ==
    AlternateScenario =>
        /\ single.cycleTime >= 292 => PlacedLeftFirst
        /\ single.cycleTime = 288 =>
             /\ single.currentBundle # Null
             /\ single.leftBundles = <<>>
             /\ single.parent[single.currentBundle] = "centerPivot"

\* the frame cycleTime = 7.3, which places the bundle
C19_Witness ==
    /\ AlternateScenario
    /\ single.cycleTime = 292
    /\ single.cycleText = "place_in_tray"
    /\ PlacedLeftFirst

\* C20: with frames sampled at cycleTime 0.0, 0.1, ..., 8.0, the in-flight
\* bundle of cycle 0 is wrapped (currentBundleIsWrapped is true and the
\* bundle is a wrapped one) at the frame cycleTime = 5.4 and at every later
\* frame until it is placed.
C20_TransformScenario ==
    (prog = "single" /\ single.cycleText # ""
        /\ 216 <= single.cycleTime /\ single.cycleTime < SH_CYCLE_DURATION
        /\ single.placed = 0) =>
        /\ single.currentBundle # Null
        /\ single.currentBundleIsWrapped
        /\ single.kind[single.currentBundle] = "wrapped"
        /\ single.wrapCalls = 1

\* the frame cycleTime = 5.4, the bundle wrapped and not placed yet
C20_Witness ==
    /\ prog = "single"
    /\ single.cycleTime = 216
    /\ single.cycleText = "wrapping"
    /\ single.placed = 0
    /\ single.currentBundleIsWrapped
    /\ single.kind[single.currentBundle] = "wrapped"

\* C21: in the dual-arm program run from the initial state with a frame at
\* cycleTime 0 and frame steps below 0.1 s, at the first frame with
\* cycleTime >= 12 s (480 ticks) the left tray and the right tray hold
\* exactly one bundle each and no bundle is in both trays
C21_DualScenario ==
    (prog = "dual" /\ dual.cycleTime >= TH_CYCLE_DURATION
                   /\ dual.cycleTime < TH_CYCLE_DURATION + 3)
       => /\ Len(dual.leftBundles) = 1
          /\ Len(dual.rightBundles) = 1
          /\ Range(dual.leftBundles) \cap Range(dual.rightBundles) = {}

C21_Witness ==
    /\ prog = "dual"
    /\ dual.cycleTime = TH_CYCLE_DURATION + 2
    /\ dual.cycleCount = 1
    /\ Len(dual.leftBundles) = 1 /\ Len(dual.rightBundles) = 1
    /\ dual.leftBundles # dual.rightBundles

\* 1 for a bundle in flight, 0 for none
Carried(bundle) == IF bundle # Null THEN 1 ELSE 0

\* C22: with positive frame steps and no reset, every cycle spawns exactly
\* one bundle per arm and places exactly one bundle per arm before it ends:
\* in cycle number cycleCount the placements of an arm number cycleCount or
\* cycleCount + 1, and once the spawn phase is over the bundles spawned for
\* the arm (placed or carried) number cycleCount + 1
C22_NoLostItems ==
    /\ (prog = "single" /\ single.cycleText # "") =>
          /\ single.placed \in {single.cycleCount, single.cycleCount + 1}
          /\ single.cycleText # "spawn" =>
                single.placed + Carried(single.currentBundle)
                   = single.cycleCount + 1
    /\ (prog = "dual" /\ dual.cycleText # "") =>
          /\ dual.leftCount \in {dual.cycleCount, dual.cycleCount + 1}
          /\ dual.rightCount \in {dual.cycleCount, dual.cycleCount + 1}
          /\ dual.cycleText # "spawn" =>
                /\ dual.leftCount + Carried(dual.leftBundle)
                      = dual.cycleCount + 1
                /\ dual.rightCount + Carried(dual.rightBundle)
                      = dual.cycleCount + 1

\* C23: in the three programs a callback that runs while the simulation is
\* paused changes nothing of the program state (cycleTime, cycleCount, the
\* phase, the objects with their parents and kinds, the trays), and a played
\* callback, the first after un-pausing included, advances cycleTime by the
\* time since the previous callback times speed
C23_PauseNoOp ==
    [][ /\ SH_animateClocked =>
             IF single.isPaused THEN single' = single
             ELSE single'.cycleTime
                     = single.cycleTime + clock'.gap * single.speed
        /\ TH_animateClocked =>
             IF dual.isPaused THEN dual' = dual
             ELSE dual'.cycleTime = dual.cycleTime + clock'.gap * dual.speed
        /\ PR_animateClocked =>
             IF ~press.isPlaying THEN press' = press
             ELSE press'.cycleTime
                     = press.cycleTime + clock'.gap * press.speed ]_vars

\* the first played callback after paused ones, 200 ms after the previous
\* callback at speed 2, has advanced cycleTime from 1 s to 1.4 s
C23_Witness ==
    /\ prog = "single"
    /\ clock.resumed /\ clock.gap = 8
    /\ single.speed = 2
    /\ single.cycleTime = 56
    /\ single.currentBundle # Null

\* C24: a click on reset, in any reachable state, leaves cycleTime = 0 and
\* cycleCount = 0 (single-arm, dual-arm), leftCount = rightCount = 0
\* (dual-arm), bundleCount = 0 (press variant), and does not change speed,
\* the paused flag or the station selection
C24_ResetZeroes ==
    [][ /\ single'.resets # single.resets =>
             /\ single'.cycleTime = 0 /\ single'.cycleCount = 0
             /\ single'.speed = single.speed
             /\ single'.isPaused = single.isPaused
             /\ single'.selectedStation = single.selectedStation
        /\ dual'.resets # dual.resets =>
             /\ dual'.cycleTime = 0 /\ dual'.cycleCount = 0
             /\ dual'.leftCount = 0 /\ dual'.rightCount = 0
             /\ dual'.speed = dual.speed
             /\ dual'.isPaused = dual.isPaused
        /\ press'.resets # press.resets =>
             /\ press'.cycleTime = 0 /\ press'.bundleCount = 0
             /\ press'.speed = press.speed
             /\ press'.isPlaying = press.isPlaying ]_vars

\* the dual-arm program just after a reset clicked in the pick phase, at
\* speed 2 and paused: loopTime and the phase label are those of the last
\* frame
C24_Witness ==
    /\ prog = "dual"
    /\ dual.resets = 1
    /\ dual.cycleTime = 0 /\ dual.cycleCount = 0
    /\ dual.leftCount = 0 /\ dual.rightCount = 0
    /\ dual.loopTime = 80 /\ dual.cycleText = "simultaneous_pick"
    /\ dual.speed = 2 /\ dual.isPaused

\* C25: in the single-arm and the dual-arm program the frame that wraps a
\* bundle keeps the object: the wrapped bundle is the object that was the raw
\* bundle, and its parent after the frame is the parent it had before
C25_TransformInPlace ==
    [][ /\ (~single.currentBundleIsWrapped /\ single'.currentBundleIsWrapped)
             => /\ single'.currentBundle = single.currentBundle
                /\ single'.parent[single'.currentBundle]
                      = single.parent[single.currentBundle]
        /\ (~dual.leftBundleWrapped /\ dual'.leftBundleWrapped)
             => /\ dual'.leftBundle = dual.leftBundle
                /\ dual'.parent[dual'.leftBundle]
                      = dual.parent[dual.leftBundle]
        /\ (~dual.rightBundleWrapped /\ dual'.rightBundleWrapped)
             => /\ dual'.rightBundle = dual.rightBundle
                /\ dual'.parent[dual'.rightBundle]
                      = dual.parent[dual.rightBundle] ]_vars

\* the owner of the in-flight bundle at a frame of a steady run
OwnerAt(loopTime) ==
    CASE loopTime <= 40  -> "scene"
      [] loopTime <= 130 -> "centerPivot"
      [] loopTime <= 230 -> "scene"
      [] loopTime <= 290 -> "centerPivot"
      [] OTHER           -> "tray"

\* C28: ownership order within a cycle.  In the single-arm program run with
\* 25 ms frames only (no long frame, no UI event after the first frame), at
\* every frame the in-flight bundle is
\*   a child of the scene  in spawn and in pick up to progress 0.5,
\*   a child of the arm    from the first frame of pick with progress > 0.5
\*                         (loopTime 1.025 s), through transport_to_wrapper,
\*                         to the last frame of insert_wrapper with progress
\*                         <= 0.5,
\*   a child of the scene  from the first frame of insert_wrapper with
\*                         progress > 0.5 (3.275 s), at every frame of
\*                         wrapping, up to progress 0.5 of exit_wrapper,
\*   a child of the arm    from the first frame of exit_wrapper with progress
\*                         > 0.5 (5.775 s), through transport_to_tray, to the
\*                         last frame of place_in_tray with progress <= 0.5,
\*   in the tray           from the first frame of place_in_tray with progress
\*                         > 0.5 (7.275 s): no bundle is in flight and the tray
\*                         lists hold cycleCount + 1 bundles placed so far
C28_OwnershipOrder ==
    (prog = "single" /\ hitches = 0 /\ single.cycleText # "") =>
        IF OwnerAt(single.loopTime) = "tray"
        THEN /\ single.currentBundle = Null
             /\ single.placed = single.cycleCount + 1
        ELSE /\ single.currentBundle # Null
             /\ single.parent[single.currentBundle] = OwnerAt(single.loopTime)
             /\ single.placed = single.cycleCount

\* the frame at loopTime 3.275 s of the second cycle: the bundle has just
\* gone from the arm to the scene
C28_Witness ==
    /\ prog = "single" /\ hitches = 0
    /\ single.cycleCount = 1
    /\ single.loopTime = 131
    /\ single.cycleText = "insert_wrapper"
    /\ single.currentBundle # Null
    /\ single.parent[single.currentBundle] = "scene"
    /\ single.placed = 1

\* C29: mirrored arms.  In the dual-arm program and in the press variant,
\* after every frame the right arm's pivot angle is the negation of the left
\* arm's pivot angle and the jaws of the two arms are at the same positions
\* (equal openings)
C29_MirroredArms ==
    /\ prog = "dual" =>
          /\ dual.rightArmPivot = Neg(dual.leftArmPivot)
          /\ dual.rightGripperJaws = dual.leftGripperJaws
    /\ prog = "press" =>
          /\ press.rightArm.rotation = Neg(press.leftArm.rotation)
          /\ press.rightArm.jaws = press.leftArm.jaws

\* a frame of simultaneous_to_trays past the middle of the phase: the arms
\* are between the machines and the trays, on opposite sides
C29_Witness ==
    /\ prog = "dual"
    /\ dual.cycleText = "simultaneous_to_trays"
    /\ dual.loopTime = 360
    /\ dual.leftArmPivot = Eased(2, 1, <<40, 60>>)
    /\ dual.rightArmPivot = Eased(-2, -1, <<40, 60>>)
    /\ dual.leftGripperJaws = Jaws(Fixed(25))

\* some bundle of list is not in list2
Evicts(list, list2) == Range(list) \ Range(list2) # {}

FifoEviction(list, list2) ==
    Evicts(list, list2) => Len(list) > 8 /\ list2 = Tail(list)

OldestFirst(m, list) ==
    \A i \in 2..Len(list) : m.serial[list[1]] < m.serial[list[i]]

\* C30: eviction is FIFO and only above capacity.  In the single-arm and the
\* dual-arm program (runs without reset) a frame after which some bundle of a
\* tray list is no longer in the list started with more than 8 bundles in
\* that list, removed exactly its first element, and that element was the
\* earliest placed of the occupants (in the single-arm program serial is the
\* ordinal of the placement; in both programs a placement appends)
C30_EvictionFifo ==
    [][ /\ FifoEviction(single.leftBundles, single'.leftBundles)
        /\ FifoEviction(single.rightBundles, single'.rightBundles)
        /\ Evicts(single.leftBundles, single'.leftBundles)
              => OldestFirst(single, single.leftBundles)
        /\ Evicts(single.rightBundles, single'.rightBundles)
              => OldestFirst(single, single.rightBundles)
        /\ FifoEviction(dual.leftBundles, dual'.leftBundles)
        /\ FifoEviction(dual.rightBundles, dual'.rightBundles) ]_vars

\* the reset phase of the ninth cycle has removed the first placed bundle:
\* the tray holds the 2nd to the 9th
C30_Witness ==
    /\ prog = "single"
    /\ single.cycleText = "reset"
    /\ single.evicted = 1
    /\ single.placed = 9
    /\ Len(single.leftBundles) = 8
    /\ single.serial[single.leftBundles[1]] = 2

\* the in-flight bundle of the single-arm program is a wrapped one
SH_isWrapped ==
    /\ single.currentBundleIsWrapped
    /\ single.kind[single.currentBundle] = "wrapped"

\* both in-flight bundles of the dual-arm program are wrapped ones
TH_bothWrapped ==
    /\ dual.leftBundleWrapped /\ dual.rightBundleWrapped
    /\ dual.kind[dual.leftBundle] = "wrapped"
    /\ dual.kind[dual.rightBundle] = "wrapped"

\* both in-flight bundles of the dual-arm program are raw ones
TH_bothRaw ==
    /\ ~dual.leftBundleWrapped /\ ~dual.rightBundleWrapped
    /\ dual.kind[dual.leftBundle] = "raw"
    /\ dual.kind[dual.rightBundle] = "raw"

C32_HoldPose ==
    (prog = "single" /\ single.cycleText = "wrapping") =>
        pivot = IF single.currentStation = "left" THEN Fixed(2) ELSE Fixed(-2)

\* every bundle of the tray list is a wrapped one
AllWrapped(m, list) == \A i \in 1..Len(list) : m.kind[list[i]] = "wrapped"

\* C33: only wrapped bundles are stored.  In the three programs every bundle
\* in a tray list is a wrapped bundle
C33_OnlyWrappedStored ==
    /\ prog = "single" =>
          AllWrapped(single, single.leftBundles)
             /\ AllWrapped(single, single.rightBundles)
    /\ prog = "dual" =>
          AllWrapped(dual, dual.leftBundles)
             /\ AllWrapped(dual, dual.rightBundles)
    /\ prog = "press" =>
          AllWrapped(press, press.leftTrayBundles)
             /\ AllWrapped(press, press.rightTrayBundles)

\* the bundles of the tray list sit at pairwise different slots
DistinctSlots(m, list) ==
    \A i, j \in 1..Len(list) : i # j => m.slot[list[i]] # m.slot[list[j]]

\* C34: distinct slots.  In every reachable state of the single-arm and the
\* dual-arm program no two bundles of the same tray list occupy the same
\* (row, col) slot
C34_DistinctSlots ==
    /\ prog = "single" =>
          DistinctSlots(single, single.leftBundles)
             /\ DistinctSlots(single, single.rightBundles)
    /\ prog = "dual" =>
          DistinctSlots(dual, dual.leftBundles)
             /\ DistinctSlots(dual, dual.rightBundles)

\* the bundles of the tray list sit inside the grid of 2 rows by 4 columns
InsideGrid(m, list) ==
    \A i \in 1..Len(list) :
        /\ 0 <= m.slot[list[i]][1] /\ m.slot[list[i]][1] < 2
        /\ 0 <= m.slot[list[i]][2] /\ m.slot[list[i]][2] < 4

\* C35: slots stay inside the tray grid.  In the three programs every slot
\* assigned at placement has 0 <= row < 2 and 0 <= col < 4
C35_SlotsInsideGrid ==
    /\ prog = "single" =>
          InsideGrid(single, single.leftBundles)
             /\ InsideGrid(single, single.rightBundles)
    /\ prog = "dual" =>
          InsideGrid(dual, dual.leftBundles)
             /\ InsideGrid(dual, dual.rightBundles)
    /\ prog = "press" =>
          InsideGrid(press, press.leftTrayBundles)
             /\ InsideGrid(press, press.rightTrayBundles)

\* C36: side consistency of an item.  In the single-arm program the tray in
\* which a bundle is placed is on the side of the wrapping machine at which
\* the bundle was positioned when it was inserted and wrapped
C36_SideConsistency ==
    (prog = "single" /\ sides.placedMachine # "")
        => sides.placedTray = sides.placedMachine

\* C37: lockstep of the two arms.  In every reachable state of the dual-arm
\* program leftBundle is null exactly when rightBundle is null, the two
\* wrapped flags agree whenever both bundles exist, leftCount = rightCount
\* and the two tray lists have the same length
C37_DualLockstep ==
    prog = "dual" =>
        /\ (dual.leftBundle = Null) <=> (dual.rightBundle = Null)
        /\ (dual.leftBundle # Null /\ dual.rightBundle # Null)
               => dual.leftBundleWrapped = dual.rightBundleWrapped
        /\ dual.leftCount = dual.rightCount
        /\ Len(dual.leftBundles) = Len(dual.rightBundles)

\* after a reset click: a pair placed, the next pair converted in the
\* wrappers
C37_Witness ==
    /\ prog = "dual"
    /\ dual.resets = 1
    /\ dual.leftBundle # Null /\ dual.rightBundle # Null
    /\ dual.leftBundleWrapped /\ dual.rightBundleWrapped
    /\ dual.leftCount = 1 /\ dual.rightCount = 1
    /\ Len(dual.leftBundles) = 1 /\ Len(dual.rightBundles) = 1

\* C38: the dual counters against the cycle count.  In the dual-arm program
\* with every frame step below 0.1 simulated seconds, in every reachable
\* state (also after pause and reset events) leftCount + rightCount is
\* 2 * cycleCount or 2 * cycleCount + 2, and it is 2 * cycleCount after the
\* frame in which cycleCount changes
C38_DualCountersVsCycles ==
    /\ [](prog = "dual" =>
            dual.leftCount + dual.rightCount
                \in {2 * dual.cycleCount, 2 * dual.cycleCount + 2})
    /\ [][(prog = "dual" /\ dual'.cycleCount # dual.cycleCount
               /\ dual'.resets = dual.resets)
             => dual'.leftCount + dual'.rightCount = 2 * dual'.cycleCount]_vars

\* after a reset click and a pause: the counters at 2, the cycle count just
\* changed to 1
C38_Witness ==
    /\ prog = "dual"
    /\ dual.resets = 1
    /\ dual.cycleCount = 1 /\ dual.loopTime < 4
    /\ dual.cycleTime = TH_CYCLE_DURATION + dual.loopTime
    /\ dual.leftCount + dual.rightCount = 2
    /\ dual.leftBundle # Null

=============================================================================
